---- MODULE Spec2Model ----
(***************************************************************************)
(* Model of package shpdeck (shpdeck.go): the coordinate mapper vmap, the   *)
(* style parser colorop, the three markup emitters, the shape dispatcher   *)
(* mapshape and the four geometry adapters.                                *)
(*                                                                         *)
(* Every entry point is a synchronous, stateless call.  A behaviour is one *)
(* call: Init draws the entry point, its arguments, the sink's content     *)
(* before the call and the sink's failure point; the action of the entry   *)
(* point runs the whole call and leaves its result in out, calls,          *)
(* attempts, status and ret.                                               *)
(*                                                                         *)
(* Numbers.  The float64 arguments are drawn from small integers, and a    *)
(* float64 result is the rational <<n, d>> in lowest terms with d > 0;     *)
(* <<1, 0>>, <<-1, 0>> and <<0, 0>> are +Inf, -Inf and NaN.  On these      *)
(* magnitudes float64 rounding preserves order and is exact at the         *)
(* interval end points, so the rational is compared, not the rounding.     *)
(* Strings that the code inspects (the compound color) are sequences of   *)
(* one-character strings.                                                  *)
(***************************************************************************)
EXTENDS Integers, Sequences, FiniteSets, TLC

VARIABLES
    pc,        \* "call" before the entry point has run, "done" after
    op,        \* the entry point called
    inV,       \* vmap's arguments [value, low1, high1, low2, high2]
    inColor,   \* colorop's argument
    inX, inY,  \* the coordinate slices given to mapshape
    inC,       \* the Config [maptype, color, shapesize]
    inPoly,    \* the record [NumParts, Parts, NumPoints, Points]
    inG,       \* the Geometry
    pre,       \* the sink's content when the call starts
    failAt,    \* the sink fails every write from this one on (0-based), or NoFail
    out,       \* the sink's content
    calls,     \* the calls of mapshape made so far, [x, y, shape] each
    attempts,  \* the number of writes attempted on the sink
    status,    \* "running", "returned" (the call returned, no error value) or "panic"
    ret        \* the value returned by vmap or colorop

vars == <<pc, op, inV, inColor, inX, inY, inC, inPoly, inG, pre, failAt,
          out, calls, attempts, status, ret>>

inputs == <<op, inV, inColor, inX, inY, inC, inPoly, inG, pre, failAt>>

(***************************************************************************)
(* Bounds of the model.                                                    *)
(***************************************************************************)
MaxCoords == 3      \* longest x or y slice handed to mapshape directly
MaxPoints == 4      \* largest NumPoints of a record
MaxParts == 2       \* largest NumParts of a record
MaxColorLen == 3    \* longest compound color string given to colorop
MaxVal == 2         \* largest interval end point given to vmap
MaxFail == 1        \* latest write (0-based) at which the sink starts failing

NoFail == 0 - 1     \* failAt of a sink that never fails

\* sequences over S of length 0..n
RECURSIVE SeqsUpTo(_, _)
SeqsUpTo(S, n) ==
    IF n = 0 THEN {<<>>}
    ELSE LET shorter == SeqsUpTo(S, n - 1)
         IN  shorter \cup {Append(s, e) : s \in {t \in shorter : Len(t) = n - 1}, e \in S}

Min(a, b) == IF a < b THEN a ELSE b
Max(a, b) == IF a > b THEN a ELSE b
Abs(a) == IF a < 0 THEN -a ELSE a

RECURSIVE Gcd(_, _)
Gcd(a, b) == IF b = 0 THEN a ELSE Gcd(b, a % b)

RECURSIVE Pow10(_)
Pow10(n) == IF n = 0 THEN 1 ELSE 10 * Pow10(n - 1)

(***************************************************************************)
(* float64 values as rationals.                                            *)
(***************************************************************************)
Sign(a) == IF a > 0 THEN 1 ELSE IF a < 0 THEN -1 ELSE 0

\* the float64 n/d: lowest terms, positive denominator; d = 0 gives
\* +Inf, -Inf or NaN as IEEE division does
Rat(n, d) ==
    IF d = 0 THEN <<Sign(n), 0>>
    ELSE LET k == Gcd(Abs(n), Abs(d))
         IN  <<Sign(d) * (n \div k), Abs(d) \div k>>

F(n) == <<n, 1>>

IsFinite(r) == r[2] # 0

\* a <= b on finite values
Leq(a, b) == a[1] * b[2] <= b[1] * a[2]

\* the quotient n/d (d > 0) rounded to the nearest integer, ties to even,
\* as strconv formats a float64 at a fixed precision
RoundDiv(n, d) ==
    LET q == n \div d
        r == n - q * d
    IN  IF 2 * r < d THEN q
        ELSE IF 2 * r > d THEN q + 1
        ELSE IF q % 2 = 0 THEN q ELSE q + 1

\* the text of verb %.<digits>f applied to r: the decimal nearest to r with
\* that many fraction digits, held as whole + frac / 10^digits with
\* 0 <= frac < 10^digits (whole is the floor, so -0.5 is -1 + 0.5)
Fmt(r, digits) ==
    IF IsFinite(r)
    THEN LET whole == r[1] \div r[2]
             frac == RoundDiv((r[1] - whole * r[2]) * Pow10(digits), r[2])
             carry == IF frac = Pow10(digits) THEN 1 ELSE 0
         IN  [digits |-> digits, whole |-> whole + carry,
              frac |-> frac - carry * Pow10(digits)]
    ELSE [digits |-> digits,
          special |-> IF r[1] > 0 THEN "+Inf" ELSE IF r[1] < 0 THEN "-Inf" ELSE "NaN"]

\* the text of verb %q applied to s: s between double quotes (the strings
\* of the model hold no character that %q escapes)
Quote(s) == <<"\"">> \o s \o <<"\"">>

(***************************************************************************)
(* vmap maps one interval to another.                                      *)
(***************************************************************************)
vmapClamped(value, low1, high1, low2, high2) ==
    LET inside == IF low1 <= high1
                  THEN Max(low1, Min(high1, value))
                  ELSE Max(high1, Min(low1, value))
    IN  Rat(low2 * (high1 - low1) + (high2 - low2) * (inside - low1), high1 - low1)

vmap(value, low1, high1, low2, high2) ==
    IF high1 = low1
    THEN \* (high2-low2)*(value-low1)/0 is +-Inf or NaN, and low2 + that is the same
         Rat((high2 - low2) * (value - low1), 0)
    ELSE Rat(low2 * (high1 - low1) + (high2 - low2) * (value - low1), high1 - low1)

(***************************************************************************)
(* colorop makes a color and optional opacity in the form of name:op.      *)
(***************************************************************************)
\* strings.Index(s, ch): 0-based position of the first ch in s, -1 if none
Index(s, ch) ==
    IF \E i \in 1..Len(s) : s[i] = ch
    THEN (CHOOSE i \in 1..Len(s) : s[i] = ch /\ \A j \in 1..(i - 1) : s[j] # ch) - 1
    ELSE -1

Full == <<"1", "0", "0">>

coloropFromZero(col) ==
    LET ci == Index(col, ":")
    IN  IF ci >= 0 /\ ci < Len(col)
        THEN <<SubSeq(col, 1, ci), SubSeq(col, ci + 2, Len(col))>>
        ELSE <<col, Full>>

colorop(col) ==
    LET ci == Index(col, ":")
    IN  IF ci > 0 /\ ci < Len(col)
        THEN <<SubSeq(col, 1, ci), SubSeq(col, ci + 2, Len(col))>>
        ELSE <<col, Full>>

(***************************************************************************)
(* The markup emitters.  The io.Writer is not a parameter: an emitter is   *)
(* the sequence w of its fmt.Fprintf calls, one entry per call in call     *)
(* order, and panic, whether it ends in an index-out-of-range panic (the   *)
(* arguments of a call are evaluated before the call, so a panicking call  *)
(* writes nothing).  Go slices are 0-based, the sequences here 1-based.    *)
(***************************************************************************)
Emit(w, panic) == [w |-> w, panic |-> panic]

\* one line of linefmt
linefmt(x1, y1, x2, y2, fill, opacity, size) ==
    [kind |-> "line", xp1 |-> Fmt(x1, 7), yp1 |-> Fmt(y1, 7),
     xp2 |-> Fmt(x2, 7), yp2 |-> Fmt(y2, 7),
     color |-> Quote(fill), opacity |-> Quote(opacity), sp |-> Fmt(size, 3)]

\* one line of dotfmt
dotfmt(xp, yp, fill, opacity, size) ==
    [kind |-> "ellipse", xp |-> Fmt(xp, 7), yp |-> Fmt(yp, 7), hr |-> "100",
     color |-> Quote(fill), opacity |-> Quote(opacity), wp |-> Fmt(size, 3)]

\* the six kinds of Fprintf call of deckpolygon
polyOpen(fill, opacity, x0) ==
    [kind |-> "polygon", color |-> Quote(fill), opacity |-> Quote(opacity),
     val |-> Fmt(x0, 5)]
polyValue(xi) == [kind |-> "value", val |-> Fmt(xi, 5)]
polyXcEnd(xe) == [kind |-> "xcend", val |-> Fmt(xe, 5)]
polyYcOpen(y0) == [kind |-> "yc", val |-> Fmt(y0, 5)]
polyEnd(ye) == [kind |-> "end", val |-> Fmt(ye, 5)]

deckpolygonNoGuard(x, y, col) ==
    LET nc == Len(x)
        co == colorop(col)
    IN  IF nc < 1 \/ Len(y) < nc THEN Emit(<<>>, FALSE)
        ELSE Emit(<<polyOpen(co[1], co[2], x[1])>>
                  \o [i \in 1..(nc - 1) |-> polyValue(x[i + 1])]
                  \o <<polyXcEnd(x[nc])>>
                  \o <<polyYcOpen(y[1])>>
                  \o [i \in 1..(nc - 1) |-> polyValue(y[i + 1])]
                  \o <<polyEnd(y[nc])>>,
                  FALSE)

\* deckpolygon makes deck markup for a polygon given x, y coordinates slices
deckpolygon(x, y, col) ==
    LET nc == Len(x)
        co == colorop(col)
        end == nc - 1
    IN  IF nc < 3 \/ nc # Len(y) THEN Emit(<<>>, FALSE)
        ELSE Emit(<<polyOpen(co[1], co[2], x[1])>>
                  \o [i \in 1..(nc - 1) |-> polyValue(x[i + 1])]
                  \o <<polyXcEnd(x[end + 1])>>
                  \o <<polyYcOpen(y[1])>>
                  \o [i \in 1..(nc - 1) |-> polyValue(y[i + 1])]
                  \o <<polyEnd(y[end + 1])>>,
                  FALSE)

deckdotSkipFirst(x, y, col, size) ==
    LET co == colorop(col)
        n == Min(Len(x), Len(y))
    IN  Emit([i \in 1..(n - 1) |-> dotfmt(x[i + 1], y[i + 1], co[1], co[2], size)],
             Len(y) < Len(x))

\* deckdot makes a series of circles in deck markup from a set of (x,y) coordinates
deckdot(x, y, col, size) ==
    LET co == colorop(col)
        n == Min(Len(x), Len(y))     \* y[i] panics at i = len(y) < len(x)
    IN  Emit([i \in 1..n |-> dotfmt(x[i], y[i], co[1], co[2], size)],
             Len(y) < Len(x))

deckpolylineOpen(x, y, col, size) ==
    LET co == colorop(col)
        lx == Len(x)
        n == Max(0, Min(lx - 1, Len(y) - 1))
    IN  Emit([i \in 1..n |-> linefmt(x[i], y[i], x[i + 1], y[i + 1], co[1], co[2], size)],
             lx = 0 \/ Len(y) < lx)

\* deckpolyline makes a series of lines in deck markup from a set of (x,y) coordinates
deckpolyline(x, y, col, size) ==
    LET co == colorop(col)
        lx == Len(x)
        \* the loop body reads y[i+1]: it panics at the first i+1 >= len(y)
        n == Max(0, Min(lx - 1, Len(y) - 1))
        loopPanics == n < lx - 1
        \* the closing call reads x[0] and y[lx-1]
        closePanics == lx = 0 \/ Len(y) < lx
        segs == [i \in 1..n |-> linefmt(x[i], y[i], x[i + 1], y[i + 1], co[1], co[2], size)]
    IN  IF loopPanics \/ closePanics THEN Emit(segs, TRUE)
        ELSE Emit(Append(segs, linefmt(x[1], y[1], x[lx], y[lx], co[1], co[2], size)),
                  FALSE)

(***************************************************************************)
(* mapshape writes markup to the destination according to the shape.       *)
(***************************************************************************)
mapshapeNoCircle(x, y, shape, col, size) ==
    IF shape \in {"p", "poly", "region", "polygon"} THEN deckpolygon(x, y, col)
    ELSE IF shape \in {"l", "line", "border"} THEN deckpolyline(x, y, col, size)
    ELSE IF shape \in {"d", "dot"} THEN deckdot(x, y, col, size)
    ELSE Emit(<<>>, FALSE)

mapshape(x, y, shape, col, size) ==
    IF shape \in {"p", "poly", "region", "polygon"} THEN deckpolygon(x, y, col)
    ELSE IF shape \in {"l", "line", "border"} THEN deckpolyline(x, y, col, size)
    ELSE IF shape \in {"d", "dot", "circle"} THEN deckdot(x, y, col, size)
    ELSE Emit(<<>>, FALSE)

(***************************************************************************)
(* The geometry adapters.  An adapter is the sequence w of the writes it   *)
(* attempts, the calls of mapshape it makes and whether it panics; a panic *)
(* ends the call where it happens.                                         *)
(***************************************************************************)
Began == [w |-> <<>>, calls |-> <<>>, panic |-> FALSE]

\* the inner loop of an adapter: the points with (0-based) index lo <= j < hi,
\* mapped to the screen; poly.Points[j] panics outside the slice
partCoords(poly, g, lo, hi) ==
    LET n == Max(0, hi - lo)
        bad == n > 0 /\ (lo < 0 \/ hi > Len(poly.Points))
    IN  [x |-> IF bad THEN <<>>
               ELSE [i \in 1..n |-> vmap(poly.Points[lo + i].X,
                                         g.Longmin, g.Longmax, g.Xmin, g.Xmax)],
         y |-> IF bad THEN <<>>
               ELSE [i \in 1..n |-> vmap(poly.Points[lo + i].Y,
                                         g.Latmin, g.Latmax, g.Ymin, g.Ymax)],
         panic |-> bad]

\* one part: its coordinates, then mapshape with the configured shape
shapePart(poly, g, c, lo, hi, acc) ==
    LET pt == partCoords(poly, g, lo, hi)
        e == mapshape(pt.x, pt.y, c.maptype, c.color, c.shapesize)
    IN  IF pt.panic THEN [acc EXCEPT !.panic = TRUE]
        ELSE [w |-> acc.w \o e.w,
              calls |-> Append(acc.calls, [x |-> pt.x, y |-> pt.y, shape |-> c.maptype]),
              panic |-> e.panic]

\* for i := range last: the parts i, i+1, ... below last (0-based)
RECURSIVE everyPart(_, _, _, _, _, _)
everyPart(poly, g, c, i, last, acc) ==
    IF i >= last \/ acc.panic THEN acc
    ELSE everyPart(poly, g, c, i + 1, last,
                   shapePart(poly, g, c, poly.Parts[i + 1], poly.Parts[i + 2], acc))

\* PolygonCoords converts a set of coordinates and makes polygons
PolygonCoords(poly, g, c) ==
    LET last == poly.NumParts - 1
        loop == everyPart(poly, g, c, 0, last, Began)
    IN  IF loop.panic THEN loop
        ELSE IF last < 0 \/ last >= Len(poly.Parts)     \* poly.Parts[last]
        THEN [loop EXCEPT !.panic = TRUE]
        ELSE shapePart(poly, g, c, poly.Parts[last + 1], poly.NumPoints, loop)

\* PolylineCoords converts a set of coordinates and makes polylines
PolylineCoords(poly, g, c) ==
    LET last == poly.NumParts - 1
        loop == everyPart(poly, g, c, 0, last, Began)
    IN  IF loop.panic THEN loop
        ELSE IF last < 0 \/ last >= Len(poly.Parts)     \* poly.Parts[last]
        THEN [loop EXCEPT !.panic = TRUE]
        ELSE shapePart(poly, g, c, poly.Parts[last + 1], poly.NumPoints, loop)

\* MultipointCoords converts a set of coordinates and makes circles for each
MultipointCoords(mp, g, c) ==
    LET pt == partCoords(mp, g, 0, mp.NumPoints)
        e == mapshape(pt.x, pt.y, "dot", c.color, c.shapesize)
    IN  IF pt.panic THEN [Began EXCEPT !.panic = TRUE]
        ELSE [w |-> e.w,
              calls |-> <<[x |-> pt.x, y |-> pt.y, shape |-> "dot"]>>,
              panic |-> e.panic]

\* PointCoords places a circle at a coordinate
PointCoords(p, g, c) ==
    LET px == vmap(p.X, g.Longmin, g.Longmax, g.Xmin, g.Xmax)
        py == vmap(p.Y, g.Latmin, g.Latmax, g.Ymin, g.Ymax)
        co == colorop(c.color)
    IN  [w |-> <<dotfmt(px, py, co[1], co[2], c.shapesize)>>,
         calls |-> <<>>,
         panic |-> FALSE]

(***************************************************************************)
(* The sink.  fmt.Fprintf returns the writer's error and every call site   *)
(* discards it, so each write of w is attempted whatever became of the     *)
(* ones before it.  The writes before failAt succeed and append, the       *)
(* others fail and append nothing.                                         *)
(***************************************************************************)
Written(w, fa) == IF fa = NoFail THEN w ELSE SubSeq(w, 1, Min(fa, Len(w)))

\* the state a call of an emitting entry point leaves
Leaves(r) ==
    /\ out' = pre \o Written(r.w, failAt)
    /\ calls' = r.calls
    /\ attempts' = Len(r.w)
    /\ status' = IF r.panic THEN "panic" ELSE "returned"
    /\ ret' = ret
    /\ pc' = "done"
    /\ UNCHANGED inputs

(***************************************************************************)
(* The arguments the calls are drawn from.                                 *)
(***************************************************************************)
Keywords == {"p", "poly", "region", "polygon", "l", "line", "border",
             "d", "dot", "circle", "", "x", "Polygon"}

\* the keywords an adapter's Config is drawn from: one of each set, a
\* synonym, and one that is in no set
ConfigKeywords == {"polygon", "border", "dot", "circle", "x"}

Chars == {"r", ":", "5"}
Colors == {<<"r">>, <<"r", ":", "5">>}
Size == Rat(3, 2)

XVals == {F(0), F(1)}
YSlice(n) == [i \in 1..n |-> Rat(i - 1, 3)]

\* point j (0-based) of every record: the points differ from one another
PointAt(j) == [X |-> j, Y |-> (j * j) % 3]
Records ==
    {[NumParts |-> Len(ps), Parts |-> ps, NumPoints |-> n,
      Points |-> [j \in 1..n |-> PointAt(j - 1)]] :
        ps \in SeqsUpTo(0..MaxPoints, MaxParts), n \in 0..MaxPoints}

\* the record of a MultiPoint or a Point: no parts
Flat(n) == [NumParts |-> 0, Parts |-> <<>>, NumPoints |-> n,
            Points |-> [j \in 1..n |-> PointAt(j - 1)]]

\* longitude 0..3 onto x 0..100, latitude 0..2 onto y 100..0
Geo == [Longmin |-> 0, Longmax |-> 3, Xmin |-> 0, Xmax |-> 100,
        Latmin |-> 0, Latmax |-> 2, Ymin |-> 100, Ymax |-> 0]

\* what a sink may hold before a call
Marker == [kind |-> "earlier"]
Sinks == {<<>>, <<Marker>>}
FailPoints == {NoFail} \cup (0..MaxFail)

NoV == [value |-> 0, low1 |-> 0, high1 |-> 0, low2 |-> 0, high2 |-> 0]
NoC == [maptype |-> "", color |-> <<>>, shapesize |-> Size]

Adapters == {"PolygonCoords", "PolylineCoords", "MultipointCoords", "PointCoords"}

InitPure ==
    /\ \/ /\ op = "vmap"
          /\ inV \in [value : (0 - 1)..(MaxVal + 1), low1 : 0..MaxVal, high1 : 0..MaxVal,
                      low2 : 0..MaxVal, high2 : 0..MaxVal]
          /\ inColor = <<>>
       \/ /\ op = "colorop"
          /\ inV = NoV
          /\ inColor \in SeqsUpTo(Chars, MaxColorLen)
    /\ inX = <<>> /\ inY = <<>> /\ inC = NoC /\ inPoly = Flat(0) /\ inG = Geo
    /\ pre = <<>> /\ failAt = NoFail

InitEmit ==
    /\ \/ /\ op = "mapshape"
          /\ inX \in SeqsUpTo(XVals, MaxCoords)
          /\ inY \in {YSlice(n) : n \in 0..MaxCoords}
          /\ inC \in [maptype : Keywords, color : Colors, shapesize : {Size}]
          /\ inPoly = Flat(0)
          /\ failAt = NoFail
       \/ /\ op \in {"PolygonCoords", "PolylineCoords"}
          /\ inPoly \in {r \in Records : \A i \in 1..r.NumParts : r.Parts[i] <= r.NumPoints}
          /\ inC \in [maptype : ConfigKeywords, color : {<<"r", ":", "5">>},
                      shapesize : {Size}]
          /\ inX = <<>> /\ inY = <<>>
          /\ failAt \in FailPoints
       \/ /\ op = "MultipointCoords"
          /\ inPoly \in {Flat(n) : n \in 0..MaxPoints}
          /\ inC \in [maptype : ConfigKeywords, color : Colors, shapesize : {Size}]
          /\ inX = <<>> /\ inY = <<>>
          /\ failAt \in FailPoints
       \/ /\ op = "PointCoords"
          /\ inPoly \in {Flat(n) : n \in 1..MaxPoints}
          /\ inC \in [maptype : ConfigKeywords, color : Colors, shapesize : {Size}]
          /\ inX = <<>> /\ inY = <<>>
          /\ failAt \in FailPoints
    /\ inV = NoV /\ inColor = <<>> /\ inG = Geo
    /\ pre \in Sinks

Init ==
    /\ pc = "call"
    /\ InitPure \/ InitEmit
    /\ out = pre
    /\ calls = <<>>
    /\ attempts = 0
    /\ status = "running"
    /\ ret = <<>>

(***************************************************************************)
(* The calls.                                                              *)
(***************************************************************************)
Pure(r) ==
    /\ ret' = r
    /\ status' = "returned"
    /\ pc' = "done"
    /\ UNCHANGED <<inputs, out, calls, attempts>>

CallVmap ==
    /\ pc = "call" /\ op = "vmap"
    /\ Pure(vmap(inV.value, inV.low1, inV.high1, inV.low2, inV.high2))

CallColorop ==
    /\ pc = "call" /\ op = "colorop"
    /\ Pure(colorop(inColor))

CallMapshape ==
    /\ pc = "call" /\ op = "mapshape"
    /\ LET e == mapshape(inX, inY, inC.maptype, inC.color, inC.shapesize)
       IN  Leaves([w |-> e.w,
                   calls |-> <<[x |-> inX, y |-> inY, shape |-> inC.maptype]>>,
                   panic |-> e.panic])

CallPolygonCoords ==
    /\ pc = "call" /\ op = "PolygonCoords"
    /\ Leaves(PolygonCoords(inPoly, inG, inC))

CallPolylineCoords ==
    /\ pc = "call" /\ op = "PolylineCoords"
    /\ Leaves(PolylineCoords(inPoly, inG, inC))

CallMultipointCoords ==
    /\ pc = "call" /\ op = "MultipointCoords"
    /\ Leaves(MultipointCoords(inPoly, inG, inC))

CallPointCoords ==
    /\ pc = "call" /\ op = "PointCoords"
    /\ Leaves(PointCoords(inPoly.Points[inPoly.NumPoints], inG, inC))

Next ==
    \/ CallVmap
    \/ CallColorop
    \/ CallMapshape
    \/ CallPolygonCoords
    \/ CallPolylineCoords
    \/ CallMultipointCoords
    \/ CallPointCoords

Spec == Init /\ [][Next]_vars

(***************************************************************************)
(* Vocabulary of the properties.                                           *)
(***************************************************************************)
Done(o) == pc = "done" /\ op = o

\* what the call appended to the sink
Appended == SubSeq(out, Len(pre) + 1, Len(out))

PolygonWords == {"p", "poly", "region", "polygon"}
LineWords == {"l", "line", "border"}
DotWords == {"d", "dot", "circle"}
SameSet(k1, k2) == \E W \in {PolygonWords, LineWords, DotWords} : k1 \in W /\ k2 \in W

\* the values of the list that the write at position i of a opens: that
\* write's value and those of the writes after it, up to and including the
\* first write of kind closing
ListAt(a, i, closing) ==
    LET e == CHOOSE j \in i..Len(a) :
                 a[j].kind = closing /\ \A k \in i..(j - 1) : a[k].kind # closing
    IN  [k \in 1..(e - i + 1) |-> a[i + k - 1].val]

Opens(a, kind) == {i \in 1..Len(a) : a[i].kind = kind}

Fmt5(s) == [i \in 1..Len(s) |-> Fmt(s[i], 5)]

\* part i (1-based) of the record: the 0-based point indices lo <= j < hi
PartLo(r, i) == r.Parts[i]
PartHi(r, i) == IF i < r.NumParts THEN r.Parts[i + 1] ELSE r.NumPoints
PartSize(r, i) == Max(0, PartHi(r, i) - PartLo(r, i))

ScreenX(r, j) == vmap(r.Points[j + 1].X, inG.Longmin, inG.Longmax, inG.Xmin, inG.Xmax)
ScreenY(r, j) == vmap(r.Points[j + 1].Y, inG.Latmin, inG.Latmax, inG.Ymin, inG.Ymax)

PartAdapter == op \in {"PolygonCoords", "PolylineCoords"}

(***************************************************************************)
(* C1: for equal-length x and y of n >= 3 coordinates deckpolygon appends  *)
(* exactly one polygon element whose xc list and yc list are the n input   *)
(* values in input order, the last one not repeated.                       *)
(***************************************************************************)
C1_PolygonVerticesAsGiven ==
    (Done("mapshape") /\ inC.maptype \in PolygonWords
        /\ Len(inX) >= 3 /\ Len(inX) = Len(inY))
    => /\ status = "returned"
       /\ Opens(Appended, "polygon") = {1}
       /\ Opens(Appended, "yc") # {}
       /\ ListAt(Appended, 1, "xcend") = Fmt5(inX)
       /\ \A i \in Opens(Appended, "yc") : ListAt(Appended, i, "end") = Fmt5(inY)

(***************************************************************************)
(* C2: a Polyline or Polygon record of k >= 1 parts with non-decreasing    *)
(* offsets within NumPoints makes the adapter call mapshape exactly k      *)
(* times, the i-th call with exactly the projected points of part i in     *)
(* index order, and every point index belongs to exactly one call.         *)
(***************************************************************************)
C2_OneCallPerPart ==
    (pc = "done" /\ PartAdapter /\ inPoly.NumParts >= 1
        /\ \A i \in 1..(inPoly.NumParts - 1) : inPoly.Parts[i] <= inPoly.Parts[i + 1])
    => /\ Len(calls) = inPoly.NumParts
       /\ \A i \in 1..Len(calls) :
            /\ calls[i].x = [n \in 1..PartSize(inPoly, i) |->
                                ScreenX(inPoly, PartLo(inPoly, i) + n - 1)]
            /\ calls[i].y = [n \in 1..PartSize(inPoly, i) |->
                                ScreenY(inPoly, PartLo(inPoly, i) + n - 1)]
       /\ \A j \in 0..(inPoly.NumPoints - 1) :
            Cardinality({i \in 1..Len(calls) :
                            PartLo(inPoly, i) <= j /\ j < PartHi(inPoly, i)}) = 1

(***************************************************************************)
(* C3: on n >= 1 coordinates deckpolyline appends exactly n line elements: *)
(* the n-1 segments from coordinate i to coordinate i+1 in increasing i,   *)
(* then the closing segment from the first coordinate to the last (for     *)
(* n = 1, the point joined to itself).                                     *)
(***************************************************************************)
C3_LineSegments ==
    (Done("mapshape") /\ inC.maptype \in LineWords
        /\ Len(inX) >= 1 /\ Len(inX) = Len(inY))
    => LET n == Len(inX)
           co == colorop(inC.color)
           Seg(a, b) == linefmt(inX[a], inY[a], inX[b], inY[b], co[1], co[2], inC.shapesize)
       IN  /\ status = "returned"
           /\ Appended = [i \in 1..n |-> IF i < n THEN Seg(i, i + 1) ELSE Seg(1, n)]

C3_Witness ==
    /\ Done("mapshape") /\ inC.maptype = "border"
    /\ Len(inX) = 3 /\ Len(inY) = 3
    /\ Len(Appended) = 3
    /\ Appended[3].xp1 = Fmt(inX[1], 7) /\ Appended[3].yp2 = Fmt(inY[3], 7)

(***************************************************************************)
(* C4: when a write to the sink fails during an adapter call, no further   *)
(* write is attempted on the sink and the call does not finish as a call   *)
(* that succeeded.                                                         *)
(***************************************************************************)
C4_SinkFailurePropagates ==
    (pc = "done" /\ op \in Adapters /\ failAt # NoFail /\ attempts > failAt)
    => /\ attempts = failAt + 1
       /\ status # "returned"

(***************************************************************************)
(* C5 as stated: colorop splits at the first ':' wherever it is, so that   *)
(* ":5" gives the empty color and the opacity "5".                         *)
(***************************************************************************)
C5_SplitAtFirstSeparator ==
    Done("colorop")
    => /\ (\A i \in 1..Len(inColor) : inColor[i] # ":") => ret = <<inColor, Full>>
       /\ \A i \in 1..Len(inColor) :
            (inColor[i] = ":" /\ \A j \in 1..(i - 1) : inColor[j] # ":")
            => ret = <<SubSeq(inColor, 1, i - 1), SubSeq(inColor, i + 1, Len(inColor))>>

(***************************************************************************)
(* C5 amended: colorop splits at the first ':' when that is not the first  *)
(* character: (text before, text after).  A string with no ':', or whose   *)
(* first character is ':', gives (the whole string, "100").  So "r" gives  *)
(* ("r", "100"), "r:5" gives ("r", "5") and ":5" gives (":5", "100").      *)
(***************************************************************************)
C5_SplitAtFirstInnerSeparator ==
    Done("colorop")
    => /\ (\A i \in 1..Len(inColor) : inColor[i] # ":") => ret = <<inColor, Full>>
       /\ \A i \in 1..Len(inColor) :
            (inColor[i] = ":" /\ \A j \in 1..(i - 1) : inColor[j] # ":")
            => ret = IF i = 1 THEN <<inColor, Full>>
                     ELSE <<SubSeq(inColor, 1, i - 1),
                            SubSeq(inColor, i + 1, Len(inColor))>>
       /\ inColor = <<"r">> => ret = <<<<"r">>, <<"1", "0", "0">>>>
       /\ inColor = <<"r", ":", "5">> => ret = <<<<"r">>, <<"5">>>>
       /\ inColor = <<":", "5">> => ret = <<<<":", "5">>, <<"1", "0", "0">>>>

C5_Witness ==
    /\ Done("colorop")
    /\ inColor = <<":", "5">>
    /\ ret = <<<<":", "5">>, Full>>

(***************************************************************************)
(* C6: an adapter given a record with no parts, with no points, or with a  *)
(* part whose index range is empty, returns normally for every shape       *)
(* keyword, and emits nothing when the record has no parts or no points.   *)
(***************************************************************************)
C6_EmptyRecordIsNoOp ==
    (pc = "done" /\ op \in {"PolygonCoords", "PolylineCoords", "MultipointCoords"}
        /\ failAt = NoFail
        /\ \/ PartAdapter /\ inPoly.NumParts = 0
           \/ inPoly.NumPoints = 0
           \/ PartAdapter /\ \E i \in 1..inPoly.NumParts : PartSize(inPoly, i) = 0)
    => /\ status = "returned"
       /\ ((PartAdapter /\ inPoly.NumParts = 0) \/ inPoly.NumPoints = 0) => out = pre

(***************************************************************************)
(* C7: mapshape depends on the keyword only through its set of synonyms:   *)
(* any keyword of the same set gives the same output on the same           *)
(* coordinates, color and size, and a keyword of no set leaves the sink    *)
(* unchanged and raises no error.                                          *)
(***************************************************************************)
C7_KeywordSynonyms ==
    Done("mapshape")
    => /\ \A k \in Keywords :
            SameSet(k, inC.maptype)
            => LET e == mapshape(inX, inY, k, inC.color, inC.shapesize)
               IN  /\ out = pre \o Written(e.w, failAt)
                   /\ (status = "panic") = e.panic
       /\ (inC.maptype \notin PolygonWords \cup LineWords \cup DotWords)
            => out = pre /\ status = "returned"

C7_Witness ==
    /\ Done("mapshape") /\ inC.maptype = "circle"
    /\ Len(inX) = 2 /\ Len(inY) = 2
    /\ Len(Appended) = 2
    /\ \A i \in 1..2 : Appended[i].kind = "ellipse"

(***************************************************************************)
(* C8: deckpolygon on fewer than 3 coordinates, or on x and y of different *)
(* lengths, leaves the sink unchanged and raises no error; so a record     *)
(* rendered with a polygon keyword skips each part of fewer than 3 points  *)
(* and still emits, in part order, every part of 3 or more points.         *)
(***************************************************************************)
C8_ShortPolygonSkipped ==
    /\ (Done("mapshape") /\ inC.maptype \in PolygonWords
            /\ (Len(inX) < 3 \/ Len(inX) # Len(inY)))
       => out = pre /\ status = "returned"
    /\ (pc = "done" /\ PartAdapter /\ inC.maptype \in PolygonWords
            /\ inPoly.NumParts >= 1 /\ failAt = NoFail)
       => LET kept == {i \in 1..inPoly.NumParts : PartSize(inPoly, i) >= 3}
              opens == Opens(Appended, "polygon")
          IN  /\ status = "returned"
              /\ Cardinality(opens) = Cardinality(kept)
              /\ \A i \in kept :
                   \E o \in opens :
                     /\ Appended[o].val = Fmt(ScreenX(inPoly, PartLo(inPoly, i)), 5)
                     /\ Cardinality({q \in opens : q < o})
                            = Cardinality({q \in kept : q < i})

C8_Witness ==
    /\ Done("PolygonCoords") /\ inC.maptype = "polygon" /\ failAt = NoFail
    /\ inPoly.NumParts = 2 /\ inPoly.NumPoints = 4 /\ inPoly.Parts = <<0, 1>>
    /\ Cardinality(Opens(Appended, "polygon")) = 1
    /\ Appended[1].val = Fmt(ScreenX(inPoly, 1), 5)

(***************************************************************************)
(* C9: deckdot on n coordinate pairs appends exactly n ellipse elements,   *)
(* the i-th with the i-th pair and all with the same size, color and       *)
(* opacity (nothing for n = 0); so does MultipointCoords on a record of n  *)
(* points, whatever the configured keyword.                                *)
(***************************************************************************)
C9_DotPerPair ==
    /\ (Done("mapshape") /\ inC.maptype \in DotWords /\ Len(inX) = Len(inY))
       => LET co == colorop(inC.color)
          IN  /\ status = "returned"
              /\ Appended = [i \in 1..Len(inX) |->
                                dotfmt(inX[i], inY[i], co[1], co[2], inC.shapesize)]
    /\ (Done("MultipointCoords") /\ failAt = NoFail)
       => LET co == colorop(inC.color)
          IN  /\ status = "returned"
              /\ Appended = [i \in 1..inPoly.NumPoints |->
                                dotfmt(ScreenX(inPoly, i - 1), ScreenY(inPoly, i - 1),
                                       co[1], co[2], inC.shapesize)]

C9_Witness ==
    /\ Done("MultipointCoords") /\ inC.maptype = "polygon" /\ failAt = NoFail
    /\ inPoly.NumPoints = 3
    /\ Len(Appended) = 3
    /\ \A i \in 1..3 : Appended[i].kind = "ellipse"
    /\ Appended[1].xp # Appended[2].xp /\ Appended[2].xp # Appended[3].xp

(***************************************************************************)
(* C10: with srcLow # srcHigh, vmap maps srcLow to dstLow and srcHigh to   *)
(* dstHigh, is non-decreasing in value when the two intervals have the     *)
(* same orientation and non-increasing when they have opposite ones, and   *)
(* extrapolates a value outside the source interval instead of clamping.   *)
(***************************************************************************)
C10_VmapAffineMonotone ==
    (Done("vmap") /\ inV.low1 # inV.high1)
    => LET at(val) == vmap(val, inV.low1, inV.high1, inV.low2, inV.high2)
           orient == (inV.high2 - inV.low2) * (inV.high1 - inV.low1)
           lo2 == F(Min(inV.low2, inV.high2))
           hi2 == F(Max(inV.low2, inV.high2))
           outside == inV.value < Min(inV.low1, inV.high1)
                        \/ inV.value > Max(inV.low1, inV.high1)
       IN  /\ IsFinite(ret)
           /\ inV.value = inV.low1 => ret = F(inV.low2)
           /\ inV.value = inV.high1 => ret = F(inV.high2)
           /\ \A w \in (0 - 1)..(MaxVal + 1) :
                /\ (orient >= 0 /\ inV.value <= w) => Leq(ret, at(w))
                /\ (orient <= 0 /\ inV.value <= w) => Leq(at(w), ret)
           /\ (outside /\ inV.low2 # inV.high2)
                => ~(Leq(lo2, ret) /\ Leq(ret, hi2))

C10_Witness ==
    /\ Done("vmap")
    /\ inV.low1 < inV.high1 /\ inV.high1 < inV.value
    /\ inV.low2 > inV.high2
    /\ Leq(ret, F(inV.high2)) /\ ret # F(inV.high2)
====
